---- MODULE Spec2Model ----
(***************************************************************************)
(* The proxy-aware HTTP relay of apps/desktop/src-tauri/src/http.rs:       *)
(* build_proxy_url, build_client and the two Tauri commands http_request   *)
(* and http_request_stream, each command modelled as one task that moves   *)
(* from one await point to the next.                                       *)
(*                                                                         *)
(* A Rust String is a sequence of one-character strings, Option<T> is a    *)
(* sequence of length 0 (None) or 1 (Some), Result<T, E> is a record.      *)
(***************************************************************************)
EXTENDS Integers, Sequences, FiniteSets, TLC

None == <<>>
Some(x) == <<x>>
is_some(o) == Len(o) = 1
is_none(o) == Len(o) = 0
unwrap(o) == o[1]
Ok(v) == [ok |-> TRUE, val |-> v]
Err(e) == [ok |-> FALSE, val |-> e]

(***************************************************************************)
(* String literals of the source.                                          *)
(***************************************************************************)
\* "none"
NONE_TYPE == <<"n", "o", "n", "e">>
\* "socks5"
SOCKS5 == <<"s", "o", "c", "k", "s", "5">>
\* "socks5h"
SOCKS5H == <<"s", "o", "c", "k", "s", "5", "h">>
\* "http"
HTTP == <<"h", "t", "t", "p">>
\* "https"
HTTPS == <<"h", "t", "t", "p", "s">>
\* "GET"
GET == <<"G", "E", "T">>
\* "POST"
POST == <<"P", "O", "S", "T">>
\* "PUT"
PUT == <<"P", "U", "T">>
\* "DELETE"
DELETE == <<"D", "E", "L", "E", "T", "E">>
\* "PATCH"
PATCH == <<"P", "A", "T", "C", "H">>
\* "default"
DEFAULT_ID == <<"d", "e", "f", "a", "u", "l", "t">>
\* "Failed to create SOCKS5 proxy: "
MSG_SOCKS5 == <<"F", "a", "i", "l", "e", "d", " ", "t", "o", " ", "c", "r", "e", "a", "t", "e", " ", "S", "O", "C", "K", "S", "5", " ", "p", "r", "o", "x", "y", ":", " ">>
\* "Failed to create HTTP proxy: "
MSG_HTTP_PROXY == <<"F", "a", "i", "l", "e", "d", " ", "t", "o", " ", "c", "r", "e", "a", "t", "e", " ", "H", "T", "T", "P", " ", "p", "r", "o", "x", "y", ":", " ">>
\* "Unsupported proxy type: "
MSG_PROXY_TYPE == <<"U", "n", "s", "u", "p", "p", "o", "r", "t", "e", "d", " ", "p", "r", "o", "x", "y", " ", "t", "y", "p", "e", ":", " ">>
\* "Failed to build HTTP client: "
MSG_BUILD == <<"F", "a", "i", "l", "e", "d", " ", "t", "o", " ", "b", "u", "i", "l", "d", " ", "H", "T", "T", "P", " ", "c", "l", "i", "e", "n", "t", ":", " ">>
\* "Unsupported HTTP method: "
MSG_METHOD == <<"U", "n", "s", "u", "p", "p", "o", "r", "t", "e", "d", " ", "H", "T", "T", "P", " ", "m", "e", "t", "h", "o", "d", ":", " ">>
\* "Connection failed (check proxy settings): "
MSG_CONNECT == <<"C", "o", "n", "n", "e", "c", "t", "i", "o", "n", " ", "f", "a", "i", "l", "e", "d", " ", "(", "c", "h", "e", "c", "k", " ", "p", "r", "o", "x", "y", " ", "s", "e", "t", "t", "i", "n", "g", "s", ")", ":", " ">>
\* "Request timed out: "
MSG_TIMEOUT == <<"R", "e", "q", "u", "e", "s", "t", " ", "t", "i", "m", "e", "d", " ", "o", "u", "t", ":", " ">>
\* "Request failed: "
MSG_FAILED == <<"R", "e", "q", "u", "e", "s", "t", " ", "f", "a", "i", "l", "e", "d", ":", " ">>
\* "Failed to read response body: "
MSG_BODY == <<"F", "a", "i", "l", "e", "d", " ", "t", "o", " ", "r", "e", "a", "d", " ", "r", "e", "s", "p", "o", "n", "s", "e", " ", "b", "o", "d", "y", ":", " ">>
\* "HTTP "
MSG_STATUS == <<"H", "T", "T", "P", " ">>
\* ": "
MSG_SEP == <<":", " ">>
\* "Stream error: "
MSG_STREAM == <<"S", "t", "r", "e", "a", "m", " ", "e", "r", "r", "o", "r", ":", " ">>

(***************************************************************************)
(* Formatting and case conversion, as the standard library computes them.  *)
(***************************************************************************)
DIGITS == <<"0", "1", "2", "3", "4", "5", "6", "7", "8", "9">>
LOWER == <<"a", "b", "c", "d", "e", "f", "g", "h", "i", "j", "k", "l", "m",
           "n", "o", "p", "q", "r", "s", "t", "u", "v", "w", "x", "y", "z">>
UPPER == <<"A", "B", "C", "D", "E", "F", "G", "H", "I", "J", "K", "L", "M",
           "N", "O", "P", "Q", "R", "S", "T", "U", "V", "W", "X", "Y", "Z">>

\* Display of an unsigned integer: its decimal digits, most significant first.
RECURSIVE to_string(_)
to_string(n) ==
    IF n < 10 THEN <<DIGITS[n + 1]>>
    ELSE to_string(n \div 10) \o <<DIGITS[(n % 10) + 1]>>

\* str::to_uppercase on the characters the model uses: a lowercase letter
\* becomes its uppercase letter, every other character is kept.
to_uppercase(s) ==
    [k \in 1..Len(s) |->
        IF \E j \in 1..Len(LOWER) : LOWER[j] = s[k]
        THEN UPPER[CHOOSE j \in 1..Len(LOWER) : LOWER[j] = s[k]]
        ELSE s[k]]

(***************************************************************************)
(* build_proxy_url: scheme://[auth]host:port                               *)
(***************************************************************************)
\* build_proxy_url that embeds a password given without a username.
build_proxy_url_password_alone(config) ==
    LET auth ==
            IF is_some(config.username) /\ is_some(config.password)
            THEN unwrap(config.username) \o <<":">>
                     \o unwrap(config.password) \o <<"@">>
            ELSE IF is_some(config.username)
            THEN unwrap(config.username) \o <<"@">>
            ELSE IF is_some(config.password)
            THEN <<":">> \o unwrap(config.password) \o <<"@">>
            ELSE <<>>
    IN  config.proxy_type \o <<":", "/", "/">> \o auth \o config.host \o <<":">>
            \o to_string(config.port)
\* build_proxy_url with the credentials after the host.
build_proxy_url_auth_after_host(config) ==
    LET auth ==
            IF is_some(config.username) /\ is_some(config.password)
            THEN unwrap(config.username) \o <<":">>
                     \o unwrap(config.password) \o <<"@">>
            ELSE IF is_some(config.username) /\ is_none(config.password)
            THEN unwrap(config.username) \o <<"@">>
            ELSE <<>>
    IN  config.proxy_type \o <<":", "/", "/">> \o config.host \o auth \o <<":">>
            \o to_string(config.port)

build_proxy_url(config) ==
    LET auth ==
            IF is_some(config.username) /\ is_some(config.password)
            THEN unwrap(config.username) \o <<":">>
                     \o unwrap(config.password) \o <<"@">>
            ELSE IF is_some(config.username) /\ is_none(config.password)
            THEN unwrap(config.username) \o <<"@">>
            ELSE <<>>
    IN  config.proxy_type \o <<":", "/", "/">> \o auth \o config.host \o <<":">>
            \o to_string(config.port)

(***************************************************************************)
(* build_client.  lib holds what the reqwest calls of this invocation      *)
(* return: lib.proxy_all for Proxy::all and lib.build for                  *)
(* ClientBuilder::build, each None (success) or Some(error text).          *)
(***************************************************************************)
builder_build(builder, lib) ==
    IF is_some(lib.build)
    THEN Err(MSG_BUILD \o unwrap(lib.build))
    ELSE Ok(builder)

\* proxy_enabled without the test of the port.
proxy_enabled_any_port(proxy) ==
    proxy.proxy_type # NONE_TYPE /\ proxy.host # <<>>

proxy_enabled(proxy) ==
    proxy.proxy_type # NONE_TYPE /\ proxy.host # <<>> /\ proxy.port > 0

\* build_client with an unknown proxy type skipped instead of refused.
build_client_skip_unknown(proxy_config, timeout_ms, lib) ==
    LET builder == [timeout |-> timeout_ms,
                    danger_accept_invalid_certs |-> FALSE,
                    proxy |-> None]
    IN  IF is_some(proxy_config) /\ proxy_enabled(unwrap(proxy_config))
           /\ unwrap(proxy_config).proxy_type \in {SOCKS5, SOCKS5H, HTTP, HTTPS}
        THEN LET proxy == unwrap(proxy_config)
                 proxy_url == build_proxy_url(proxy)
             IN  IF is_some(lib.proxy_all)
                 THEN Err((IF proxy.proxy_type \in {SOCKS5, SOCKS5H}
                           THEN MSG_SOCKS5 ELSE MSG_HTTP_PROXY)
                          \o unwrap(lib.proxy_all))
                 ELSE builder_build(
                          [builder EXCEPT !.proxy = Some([all |-> proxy_url])], lib)
        ELSE builder_build(builder, lib)

build_client(proxy_config, timeout_ms, lib) ==
    LET builder == [timeout |-> timeout_ms,
                    danger_accept_invalid_certs |-> FALSE,
                    proxy |-> None]
    IN  IF is_some(proxy_config) /\ proxy_enabled(unwrap(proxy_config))
        THEN LET proxy == unwrap(proxy_config)
                 proxy_url == build_proxy_url(proxy)
             IN  IF proxy.proxy_type \in {SOCKS5, SOCKS5H}
                 THEN IF is_some(lib.proxy_all)
                      THEN Err(MSG_SOCKS5 \o unwrap(lib.proxy_all))
                      ELSE builder_build(
                               [builder EXCEPT !.proxy = Some([all |-> proxy_url])], lib)
                 ELSE IF proxy.proxy_type \in {HTTP, HTTPS}
                 THEN IF is_some(lib.proxy_all)
                      THEN Err(MSG_HTTP_PROXY \o unwrap(lib.proxy_all))
                      ELSE builder_build(
                               [builder EXCEPT !.proxy = Some([all |-> proxy_url])], lib)
                 ELSE Err(MSG_PROXY_TYPE \o proxy.proxy_type)
        ELSE builder_build(builder, lib)

(***************************************************************************)
(* Request construction: the method dispatch, the headers and the body.    *)
(* The two commands each carry their own copy of this code.                *)
(***************************************************************************)
request_builder(client, config) ==
    LET method == to_uppercase(config.method)
    IN  IF method \in {GET, POST, PUT, DELETE, PATCH}
        THEN Ok([method |-> method, url |-> config.url,
                 headers |-> config.headers, body |-> config.body,
                 client |-> client])
        ELSE Err(MSG_METHOD \o method)

\* stream_request_builder with GET as the fallback of the method dispatch.
stream_request_builder_default_get(client, config) ==
    LET method == to_uppercase(config.method)
    IN  Ok([method |-> IF method \in {GET, POST, PUT, DELETE, PATCH}
                       THEN method ELSE GET,
            url |-> config.url, headers |-> config.headers,
            body |-> config.body, client |-> client])

stream_request_builder(client, config) ==
    LET method == to_uppercase(config.method)
    IN  IF method \in {GET, POST, PUT, DELETE, PATCH}
        THEN Ok([method |-> method, url |-> config.url,
                 headers |-> config.headers, body |-> config.body,
                 client |-> client])
        ELSE Err(MSG_METHOD \o method)

(***************************************************************************)
(* The error string of a failed send.  e is the reqwest error: whether it  *)
(* is a connect error, whether it is a timeout (a connect timeout is       *)
(* both), and its Display text.                                            *)
(***************************************************************************)
send_error_msg(e) ==
    IF e.connect THEN MSG_CONNECT \o e.text
    ELSE IF e.timeout THEN MSG_TIMEOUT \o e.text
    ELSE MSG_FAILED \o e.text

\* stream_send_error_msg with the timeout test before the connect test.
stream_send_error_msg_timeout_first(e) ==
    IF e.timeout THEN MSG_TIMEOUT \o e.text
    ELSE IF e.connect THEN MSG_CONNECT \o e.text
    ELSE MSG_FAILED \o e.text

stream_send_error_msg(e) ==
    IF e.connect THEN MSG_CONNECT \o e.text
    ELSE IF e.timeout THEN MSG_TIMEOUT \o e.text
    ELSE MSG_FAILED \o e.text

\* StatusCode::is_success: 200..=299
is_success(status) == 200 <= status /\ status <= 299

(***************************************************************************)
(* Bytes to text.  A body chunk is a sequence of bytes; String::from_utf8  *)
(* accepts it when it is well-formed UTF-8 (here: one-byte and two-byte    *)
(* sequences) and yields its characters.  HeaderValue::to_str accepts      *)
(* visible ASCII only.                                                     *)
(***************************************************************************)
is_ascii(b) == b < 128
is_lead2(b) == 194 <= b /\ b <= 223
is_cont(b) == 128 <= b /\ b <= 191

RECURSIVE utf8_valid(_)
utf8_valid(bytes) ==
    IF bytes = <<>> THEN TRUE
    ELSE IF is_ascii(bytes[1]) THEN utf8_valid(Tail(bytes))
    ELSE IF is_lead2(bytes[1]) /\ Len(bytes) >= 2 /\ is_cont(bytes[2])
    THEN utf8_valid(Tail(Tail(bytes)))
    ELSE FALSE

\* The character of a code point: digits and letters by their ASCII code,
\* U+00E9 by its name.  The bytes the model draws decode to these only.
char_of(cp) ==
    IF 48 <= cp /\ cp <= 57 THEN DIGITS[cp - 47]
    ELSE IF 65 <= cp /\ cp <= 90 THEN UPPER[cp - 64]
    ELSE IF 97 <= cp /\ cp <= 122 THEN LOWER[cp - 96]
    ELSE IF cp = 233 THEN "e-acute"
    ELSE "other"

RECURSIVE utf8_decode(_)
utf8_decode(bytes) ==
    IF bytes = <<>> THEN <<>>
    ELSE IF is_ascii(bytes[1])
    THEN <<char_of(bytes[1])>> \o utf8_decode(Tail(bytes))
    ELSE <<char_of((bytes[1] - 192) * 64 + (bytes[2] - 128))>>
             \o utf8_decode(Tail(Tail(bytes)))

from_utf8(bytes) ==
    IF utf8_valid(bytes) THEN Ok(utf8_decode(bytes)) ELSE Err(bytes)

\* HeaderValue::to_str: Ok when every byte is visible ASCII (32..=126) or tab.
to_str(bytes) ==
    IF \A k \in 1..Len(bytes) : (32 <= bytes[k] /\ bytes[k] <= 126) \/ bytes[k] = 9
    THEN Ok([k \in 1..Len(bytes) |-> char_of(bytes[k])])
    ELSE Err(bytes)

\* The loop with String::from_utf8_lossy(value.as_bytes()) in place of
\* value.to_str(): a value that is not text is kept as a replacement
\* character.
RECURSIVE collect_headers_lossy(_, _)
collect_headers_lossy(list, map) ==
    IF list = <<>> THEN map
    ELSE LET key == Head(list).key
             v == to_str(Head(list).value)
         IN  collect_headers_lossy(Tail(list),
                 {kv \in map : kv[1] # key}
                     \cup {<<key, IF v.ok THEN v.val ELSE <<"?">>>>})
\* The loop over response.headers(): insert into the HashMap every header
\* whose value is text; a later value of the same name replaces the earlier.
RECURSIVE collect_headers(_, _)
collect_headers(list, map) ==
    IF list = <<>> THEN map
    ELSE LET key == list[1].key
             v == to_str(list[1].value)
         IN  collect_headers(Tail(list),
                 IF v.ok
                 THEN {kv \in map : kv[1] # key} \cup {<<key, v.val>>}
                 ELSE map)

(***************************************************************************)
(* Inputs.  The frontend may send any strings; these are the ones drawn.   *)
(***************************************************************************)
MaxChunks == 2

\* The tasks a run can hold: each invocation of a command is its own task.
Slots == {1, 2}

Methods ==
    { <<"g", "e", "t">>, POST, <<"P", "u", "t">>, <<"d", "e", "l", "e", "t", "e">>,
      PATCH, <<"H", "E", "A", "D">>, <<>> }

ProxyConfigs ==
    [proxy_type : {NONE_TYPE, HTTP, HTTPS, SOCKS5, SOCKS5H, <<"f", "t", "p">>},
     host : {<<>>, <<"h">>},
     port : {0, 80},
     username : {None, Some(<<"u">>)},
     password : {None, Some(<<"p">>)}]

\* The config every drawn config is a variation of.
BaseConfig ==
    [url |-> <<"u", "r", "l">>,
     method |-> <<"g", "e", "t">>,
     headers |-> {<<<<"k">>, <<"v">>>>},
     body |-> None,
     proxy |-> None,
     timeout_ms |-> None,
     stream |-> None,
     request_id |-> None]

\* An enabled proxy of a supported type, and one of an unsupported type.
GoodProxy ==
    [proxy_type |-> SOCKS5, host |-> <<"h">>, port |-> 80,
     username |-> Some(<<"u">>), password |-> Some(<<"p">>)]
BadProxy == [GoodProxy EXCEPT !.proxy_type = <<"f", "t", "p">>]

\* Every method with no proxy, a supported and an unsupported proxy; every
\* proxy with a supported and an unsupported method; every request_id with
\* and without a timeout and a body.
Configs ==
    {[BaseConfig EXCEPT !.method = m, !.proxy = p] :
        m \in Methods, p \in {None, Some(GoodProxy), Some(BadProxy)}}
    \cup {[BaseConfig EXCEPT !.method = m, !.proxy = Some(p)] :
        m \in {<<"g", "e", "t">>, <<"H", "E", "A", "D">>}, p \in ProxyConfigs}
    \cup {[BaseConfig EXCEPT !.request_id = r, !.timeout_ms = t, !.body = b] :
        r \in {None, Some(<<"r", "1">>), Some(<<"r", "2">>)},
        t \in {None, Some(5000)},
        b \in {None, Some(<<"b">>)}}

\* What Proxy::all and ClientBuilder::build return in one invocation.
LibOutcomes ==
    [proxy_all : {None, Some(<<"b", "a", "d">>)},
     build : {None, Some(<<"t", "l", "s">>)}]

\* A failed send: a connect error, a timeout, both, or neither.
SendErrors == [connect : BOOLEAN, timeout : BOOLEAN, text : {<<"e", "r", "r">>}]

Statuses == {101, 200, 299, 300, 500}

\* Response headers: a name with the bytes of its value.  "1" and "2" are
\* text, the bytes of e-acute are not visible ASCII.
ResponseHeaders ==
    { <<>>,
      <<[key |-> <<"x">>, value |-> <<49>>]>>,
      <<[key |-> <<"x">>, value |-> <<49>>], [key |-> <<"y">>, value |-> <<195, 169>>]>>,
      <<[key |-> <<"x">>, value |-> <<49>>], [key |-> <<"x">>, value |-> <<50>>]>> }

\* Reading a response body: the text the response carries, and the error
\* that ends the read early, if any.
BodyReads == [body : {<<>>, <<"h", "i">>}, err : {None, Some(<<"e", "o", "f">>)}]

\* response.text().await: the whole body, or the read error.
text_of(read) == IF is_some(read.err) THEN Err(unwrap(read.err)) ELSE Ok(read.body)

\* Body chunks as bytes: "a", e-acute, and the two halves of e-acute.
Chunks == {<<97>>, <<195, 169>>, <<195>>, <<169>>}

ChunkErrors == {<<"r", "s", "t">>}

(***************************************************************************)
(* State.  Every variable but bus is a function of the task (slot).        *)
(***************************************************************************)
VARIABLES
    tasks,       \* the slots this run invokes a command in
    pc,          \* idle, send, body, error_body, stream, done
    cmd,         \* which command the task runs: "request" or "stream"
    config,      \* the HttpRequestConfig it was invoked with
    request_id,  \* http_request_stream's local request_id
    client,      \* what build_client returned
    request,     \* the request built, until it is sent
    response,    \* the response received: status and headers
    result,      \* what the command returned: None until it returns
    emitted,     \* the StreamChunk payloads the task passed to app.emit
    bus,         \* the event bus: every emit, in order, with its outcome
    net,         \* what the network did: sends, reads, chunks received
    url_config,  \* the ProxyConfig build_proxy_url is applied to on its own
    url          \* and the URL it returned

task_vars == <<tasks, pc, cmd, config, request_id, client, request, response,
               result, emitted, bus, net>>

vars == <<task_vars, url_config, url>>

(***************************************************************************)
(* What a run draws.  A run with one task draws from the sets above; a run *)
(* with several concurrent tasks draws, for each task, from these smaller  *)
(* ones: the request_ids (absent, or "r1"), one unsupported method, one    *)
(* failure of each kind, a 2xx and a non-2xx status, and two different    *)
(* text chunks ("a" and e-acute).                                          *)
(***************************************************************************)
MaxPairChunks == 2

PairConfigs ==
    {[BaseConfig EXCEPT !.request_id = r] : r \in {None, Some(<<"r", "1">>)}}
    \cup {[BaseConfig EXCEPT !.method = <<"H", "E", "A", "D">>]}

PairLibOutcomes == {[proxy_all |-> None, build |-> None]}

PairSendErrors == {[connect |-> TRUE, timeout |-> FALSE, text |-> <<"e", "r", "r">>]}

PairStatuses == {200, 500}

PairResponseHeaders == {<<[key |-> <<"x">>, value |-> <<49>>]>>}

PairBodyReads == [body : {<<"h", "i">>}, err : {None, Some(<<"e", "o", "f">>)}]

PairChunks == {<<97>>, <<195, 169>>}

Concurrent == Cardinality(tasks) > 1

InConfigs == IF Concurrent THEN PairConfigs ELSE Configs
InLibOutcomes == IF Concurrent THEN PairLibOutcomes ELSE LibOutcomes
InSendErrors == IF Concurrent THEN PairSendErrors ELSE SendErrors
InStatuses == IF Concurrent THEN PairStatuses ELSE Statuses
InResponseHeaders == IF Concurrent THEN PairResponseHeaders ELSE ResponseHeaders
InBodyReads == IF Concurrent THEN PairBodyReads ELSE BodyReads
InChunks == IF Concurrent THEN PairChunks ELSE Chunks
\* The chunks a body is cut into, at most.
ChunkBound == IF Concurrent THEN MaxPairChunks ELSE MaxChunks
NoNet == [sends |-> 0, send_err |-> None, status |-> None, headers |-> None,
          body |-> None, chunks |-> <<>>, chunk_err |-> None, eof |-> FALSE]

InitTasks(T) ==
    /\ tasks = T
    /\ pc = [i \in Slots |-> "idle"]
    /\ cmd = [i \in Slots |-> "none"]
    /\ config = [i \in Slots |-> None]
    /\ request_id = [i \in Slots |-> None]
    /\ client = [i \in Slots |-> None]
    /\ request = [i \in Slots |-> None]
    /\ response = [i \in Slots |-> None]
    /\ result = [i \in Slots |-> None]
    /\ emitted = [i \in Slots |-> <<>>]
    /\ bus = <<>>
    /\ net = [i \in Slots |-> NoNet]

Init == InitTasks({1}) /\ url_config = None /\ url = None

\* emit with the request_id kept in one cell shared by all invocations (the
\* one of the highest slot that has started) in place of the task's local.
emit_shared_request_id(i, payload, delivered) ==
    LET started == {j \in tasks : is_some(request_id[j])}
        shared == unwrap(request_id[CHOOSE j \in started : \A k \in started : k <= j])
        sent == [payload EXCEPT !.request_id = shared]
    IN  /\ emitted' = [emitted EXCEPT ![i] = Append(@, sent)]
        /\ bus' = Append(bus, [event |-> "http-stream-chunk", payload |-> sent,
                               delivered |-> delivered, task |-> i])
\* let _ = app.emit("http-stream-chunk", payload): the payload goes to the
\* bus; whether the emit succeeded (delivered) is not looked at.
emit(i, payload, delivered) ==
    /\ emitted' = [emitted EXCEPT ![i] = Append(@, payload)]
    /\ bus' = Append(bus, [event |-> "http-stream-chunk", payload |-> payload,
                           delivered |-> delivered, task |-> i])

StreamChunk(id, chunk, done, error) ==
    [request_id |-> id, chunk |-> chunk, done |-> done, error |-> error]

\* request_id_of with unwrap_or_default: the empty string for None.
request_id_or_empty(cfg) ==
    IF is_some(cfg.request_id) THEN unwrap(cfg.request_id) ELSE <<>>

\* config.request_id.clone().unwrap_or_else(|| "default".to_string())
request_id_of(cfg) ==
    IF is_some(cfg.request_id) THEN unwrap(cfg.request_id) ELSE DEFAULT_ID

DEFAULT_TIMEOUT_MS == 120000

timeout_of(cfg) ==
    IF is_some(cfg.timeout_ms) THEN unwrap(cfg.timeout_ms) ELSE DEFAULT_TIMEOUT_MS

(***************************************************************************)
(* http_request_stream, from one await to the next.                        *)
(***************************************************************************)
\* Lines 154-175: request_id, build_client, the method dispatch, headers
\* and body.  A failure returns Err (the ? and the return of the match).
http_request_stream_start(i) ==
    /\ i \in tasks /\ pc[i] = "idle"
    /\ \E cfg \in InConfigs, lib \in InLibOutcomes :
        /\ cmd' = [cmd EXCEPT ![i] = "stream"]
        /\ config' = [config EXCEPT ![i] = Some(cfg)]
        /\ request_id' = [request_id EXCEPT ![i] = Some(request_id_of(cfg))]
        /\ LET built_client == build_client(cfg.proxy, timeout_of(cfg), lib)
               built == stream_request_builder(built_client.val, cfg)
           IN  /\ client' = [client EXCEPT ![i] = Some(built_client)]
               /\ IF ~built_client.ok
                  THEN /\ result' = [result EXCEPT ![i] = Some(Err(built_client.val))]
                       /\ pc' = [pc EXCEPT ![i] = "done"]
                       /\ UNCHANGED request
                  ELSE IF ~built.ok
                  THEN /\ result' = [result EXCEPT ![i] = Some(Err(built.val))]
                       /\ pc' = [pc EXCEPT ![i] = "done"]
                       /\ UNCHANGED request
                  ELSE /\ request' = [request EXCEPT ![i] = Some(built.val)]
                       /\ pc' = [pc EXCEPT ![i] = "send"]
                       /\ UNCHANGED result
        /\ UNCHANGED <<url_config, url, tasks, response, emitted, bus, net>>

\* Lines 178-196: request.send().await failed.
http_request_stream_send_err(i) ==
    /\ i \in tasks /\ pc[i] = "send" /\ cmd[i] = "stream"
    /\ \E e \in InSendErrors, delivered \in BOOLEAN :
        /\ LET error_msg == stream_send_error_msg(e)
           IN  /\ emit(i, StreamChunk(unwrap(request_id[i]), <<>>, TRUE, Some(error_msg)),
                       delivered)
               /\ result' = [result EXCEPT ![i] = Some(Err(error_msg))]
        /\ pc' = [pc EXCEPT ![i] = "done"]
        /\ request' = [request EXCEPT ![i] = None]
        /\ net' = [net EXCEPT ![i].sends = @ + 1, ![i].send_err = Some(e)]
        /\ UNCHANGED <<url_config, url, tasks, cmd, config, request_id, client, response>>

\* Lines 178, 198-199, 214: request.send().await returned a response.
http_request_stream_send_ok(i) ==
    /\ i \in tasks /\ pc[i] = "send" /\ cmd[i] = "stream"
    /\ \E status \in InStatuses :
        /\ response' = [response EXCEPT ![i] = Some([status |-> status])]
        /\ pc' = [pc EXCEPT ![i] = IF ~is_success(status) THEN "error_body" ELSE "stream"]
        /\ request' = [request EXCEPT ![i] = None]
        /\ net' = [net EXCEPT ![i].sends = @ + 1, ![i].status = Some(status)]
        /\ UNCHANGED <<url_config, url, tasks, cmd, config, request_id, client, result, emitted, bus>>

\* The error_body step with response.text().await.map_err(..)? in place of
\* unwrap_or_default: a failed read returns at once, without an event.
http_request_stream_error_body_try(i) ==
    /\ i \in tasks /\ pc[i] = "error_body"
    /\ \E read \in InBodyReads, delivered \in BOOLEAN :
        /\ LET status == unwrap(response[i]).status
               text == text_of(read)
               error_msg == MSG_STATUS \o to_string(status) \o MSG_SEP \o text.val
           IN  IF text.ok
               THEN /\ emit(i, StreamChunk(unwrap(request_id[i]), <<>>, TRUE,
                                           Some(error_msg)), delivered)
                    /\ result' = [result EXCEPT ![i] = Some(Err(error_msg))]
               ELSE /\ result' = [result EXCEPT ![i] = Some(Err(MSG_BODY \o text.val))]
                    /\ UNCHANGED <<emitted, bus>>
        /\ pc' = [pc EXCEPT ![i] = "done"]
        /\ net' = [net EXCEPT ![i].body = Some(read)]
        /\ UNCHANGED <<url_config, url, tasks, cmd, config, request_id, client, request, response>>

\* Lines 200-210: response.text().await.unwrap_or_default() of a response
\* whose status is not a success.
http_request_stream_error_body(i) ==
    /\ i \in tasks /\ pc[i] = "error_body"
    /\ \E read \in InBodyReads, delivered \in BOOLEAN :
        /\ LET status == unwrap(response[i]).status
               text == text_of(read)
               body == IF text.ok THEN text.val ELSE <<>>
               error_msg == MSG_STATUS \o to_string(status) \o MSG_SEP \o body
           IN  /\ emit(i, StreamChunk(unwrap(request_id[i]), <<>>, TRUE, Some(error_msg)),
                       delivered)
               /\ result' = [result EXCEPT ![i] = Some(Err(error_msg))]
        /\ pc' = [pc EXCEPT ![i] = "done"]
        /\ net' = [net EXCEPT ![i].body = Some(read)]
        /\ UNCHANGED <<url_config, url, tasks, cmd, config, request_id, client, request, response>>

\* The chunk step with done: true in the chunk event.
http_request_stream_chunk_done(i) ==
    /\ i \in tasks /\ pc[i] = "stream"
    /\ \E bytes \in InChunks, delivered \in BOOLEAN :
        /\ Len(net[i].chunks) < ChunkBound
        /\ LET text == from_utf8(bytes)
           IN  IF text.ok
               THEN emit(i, StreamChunk(unwrap(request_id[i]), text.val, TRUE, None),
                         delivered)
               ELSE UNCHANGED <<emitted, bus>>
        /\ net' = [net EXCEPT ![i].chunks = Append(@, bytes)]
        /\ UNCHANGED <<url_config, url, tasks, pc, cmd, config, request_id, client, request, response, result>>

\* The chunk step with app.emit(..).map_err(..)? in place of let _ =: a
\* failed emission returns Err at once.
http_request_stream_chunk_emit_checked(i) ==
    /\ i \in tasks /\ pc[i] = "stream"
    /\ \E bytes \in InChunks, delivered \in BOOLEAN :
        /\ Len(net[i].chunks) < ChunkBound
        /\ LET text == from_utf8(bytes)
           IN  IF text.ok
               THEN /\ emit(i, StreamChunk(unwrap(request_id[i]), text.val, FALSE, None),
                            delivered)
                    /\ IF delivered
                       THEN UNCHANGED <<pc, result>>
                       ELSE /\ result' = [result EXCEPT ![i] = Some(Err(<<"e", "m", "i", "t">>))]
                            /\ pc' = [pc EXCEPT ![i] = "done"]
               ELSE UNCHANGED <<emitted, bus, pc, result>>
        /\ net' = [net EXCEPT ![i].chunks = Append(@, bytes)]
        /\ UNCHANGED <<url_config, url, tasks, cmd, config, request_id, client, request, response>>
\* The chunk step that treats a chunk that is not text as a read failure:
\* an error event, then return Err.
http_request_stream_chunk_strict(i) ==
    /\ i \in tasks /\ pc[i] = "stream"
    /\ \E bytes \in InChunks, delivered \in BOOLEAN :
        /\ Len(net[i].chunks) < ChunkBound
        /\ LET text == from_utf8(bytes)
           IN  IF text.ok
               THEN /\ emit(i, StreamChunk(unwrap(request_id[i]), text.val, FALSE, None),
                            delivered)
                    /\ UNCHANGED <<pc, result>>
               ELSE /\ emit(i, StreamChunk(unwrap(request_id[i]), <<>>, TRUE,
                                           Some(MSG_STREAM \o <<"u", "t", "f", "8">>)),
                            delivered)
                    /\ result' = [result EXCEPT
                           ![i] = Some(Err(MSG_STREAM \o <<"u", "t", "f", "8">>))]
                    /\ pc' = [pc EXCEPT ![i] = "done"]
        /\ net' = [net EXCEPT ![i].chunks = Append(@, bytes)]
        /\ UNCHANGED <<url_config, url, tasks, cmd, config, request_id, client, request, response>>
\* Lines 216-227: stream.next().await yielded Some(Ok(bytes)).
http_request_stream_chunk(i) ==
    /\ i \in tasks /\ pc[i] = "stream"
    /\ \E bytes \in InChunks, delivered \in BOOLEAN :
        /\ Len(net[i].chunks) < ChunkBound
        /\ LET text == from_utf8(bytes)
           IN  IF text.ok
               THEN emit(i, StreamChunk(unwrap(request_id[i]), text.val, FALSE, None),
                         delivered)
               ELSE UNCHANGED <<emitted, bus>>
        /\ net' = [net EXCEPT ![i].chunks = Append(@, bytes)]
        /\ UNCHANGED <<url_config, url, tasks, pc, cmd, config, request_id, client, request, response, result>>

\* The chunk error step with break in place of return Err: the error event
\* is emitted, the loop is left and the call returns Ok.
http_request_stream_chunk_err_break(i) ==
    /\ i \in tasks /\ pc[i] = "stream"
    /\ \E e \in ChunkErrors, delivered \in BOOLEAN :
        /\ emit(i, StreamChunk(unwrap(request_id[i]), <<>>, TRUE, Some(MSG_STREAM \o e)),
                delivered)
        /\ result' = [result EXCEPT ![i] = Some(Ok(<<>>))]
        /\ pc' = [pc EXCEPT ![i] = "done"]
        /\ net' = [net EXCEPT ![i].chunk_err = Some(e)]
        /\ UNCHANGED <<url_config, url, tasks, cmd, config, request_id, client, request, response>>

\* The chunk error step with continue in place of return Err: the error
\* event is emitted and the loop goes on reading.
http_request_stream_chunk_err_continue(i) ==
    /\ i \in tasks /\ pc[i] = "stream"
    /\ is_none(net[i].chunk_err)
    /\ \E e \in ChunkErrors, delivered \in BOOLEAN :
        /\ emit(i, StreamChunk(unwrap(request_id[i]), <<>>, TRUE, Some(MSG_STREAM \o e)),
                delivered)
        /\ net' = [net EXCEPT ![i].chunk_err = Some(e)]
        /\ UNCHANGED <<url_config, url, tasks, pc, cmd, config, request_id, client, request,
                       response, result>>
\* Lines 228-236: stream.next().await yielded Some(Err(e)).
http_request_stream_chunk_err(i) ==
    /\ i \in tasks /\ pc[i] = "stream"
    /\ \E e \in ChunkErrors, delivered \in BOOLEAN :
        /\ emit(i, StreamChunk(unwrap(request_id[i]), <<>>, TRUE, Some(MSG_STREAM \o e)),
                delivered)
        /\ result' = [result EXCEPT ![i] = Some(Err(MSG_STREAM \o e))]
        /\ pc' = [pc EXCEPT ![i] = "done"]
        /\ net' = [net EXCEPT ![i].chunk_err = Some(e)]
        /\ UNCHANGED <<url_config, url, tasks, cmd, config, request_id, client, request, response>>

\* The end step of a loop that does not leave on None: the task awaits the
\* next chunk of a finished body for ever.
http_request_stream_end_hang(i) ==
    /\ i \in tasks /\ pc[i] = "stream"
    /\ pc' = [pc EXCEPT ![i] = "hung"]
    /\ net' = [net EXCEPT ![i].eof = TRUE]
    /\ UNCHANGED <<url_config, url, tasks, cmd, config, request_id, client, request, response,
                   result, emitted, bus>>
\* The end step without the completion event.
http_request_stream_end_silent(i) ==
    /\ i \in tasks /\ pc[i] = "stream"
    /\ result' = [result EXCEPT ![i] = Some(Ok(<<>>))]
    /\ pc' = [pc EXCEPT ![i] = "done"]
    /\ net' = [net EXCEPT ![i].eof = TRUE]
    /\ UNCHANGED <<url_config, url, tasks, cmd, config, request_id, client, request, response,
                   emitted, bus>>

\* Lines 216, 240-248: stream.next().await yielded None.
http_request_stream_end(i) ==
    /\ i \in tasks /\ pc[i] = "stream"
    /\ \E delivered \in BOOLEAN :
        /\ emit(i, StreamChunk(unwrap(request_id[i]), <<>>, TRUE, None), delivered)
        /\ result' = [result EXCEPT ![i] = Some(Ok(<<>>))]
        /\ pc' = [pc EXCEPT ![i] = "done"]
        /\ net' = [net EXCEPT ![i].eof = TRUE]
        /\ UNCHANGED <<url_config, url, tasks, cmd, config, request_id, client, request, response>>

(***************************************************************************)
(* http_request, from one await to the next.                               *)
(***************************************************************************)
\* Lines 97-117: build_client, the method dispatch, headers and body.
http_request_start(i) ==
    /\ i \in tasks /\ pc[i] = "idle"
    /\ \E cfg \in InConfigs, lib \in InLibOutcomes :
        /\ cmd' = [cmd EXCEPT ![i] = "request"]
        /\ config' = [config EXCEPT ![i] = Some(cfg)]
        /\ LET built_client == build_client(cfg.proxy, timeout_of(cfg), lib)
               built == request_builder(built_client.val, cfg)
           IN  /\ client' = [client EXCEPT ![i] = Some(built_client)]
               /\ IF ~built_client.ok
                  THEN /\ result' = [result EXCEPT ![i] = Some(Err(built_client.val))]
                       /\ pc' = [pc EXCEPT ![i] = "done"]
                       /\ UNCHANGED request
                  ELSE IF ~built.ok
                  THEN /\ result' = [result EXCEPT ![i] = Some(Err(built.val))]
                       /\ pc' = [pc EXCEPT ![i] = "done"]
                       /\ UNCHANGED request
                  ELSE /\ request' = [request EXCEPT ![i] = Some(built.val)]
                       /\ pc' = [pc EXCEPT ![i] = "send"]
                       /\ UNCHANGED result
        /\ UNCHANGED <<url_config, url, tasks, request_id, response, emitted, bus, net>>

\* The failed send with one retry: the first failure sends the request
\* again, the second is returned.
http_request_send_err_retry(i) ==
    /\ i \in tasks /\ pc[i] = "send" /\ cmd[i] = "request"
    /\ \E e \in InSendErrors :
        /\ IF net[i].sends = 0
           THEN UNCHANGED <<result, pc, request>>
           ELSE /\ result' = [result EXCEPT ![i] = Some(Err(send_error_msg(e)))]
                /\ pc' = [pc EXCEPT ![i] = "done"]
                /\ request' = [request EXCEPT ![i] = None]
        /\ net' = [net EXCEPT ![i].sends = @ + 1, ![i].send_err = Some(e)]
        /\ UNCHANGED <<url_config, url, tasks, cmd, config, request_id, client, response, emitted, bus>>
\* Lines 120-128: request.send().await failed.
http_request_send_err(i) ==
    /\ i \in tasks /\ pc[i] = "send" /\ cmd[i] = "request"
    /\ \E e \in InSendErrors :
        /\ result' = [result EXCEPT ![i] = Some(Err(send_error_msg(e)))]
        /\ pc' = [pc EXCEPT ![i] = "done"]
        /\ request' = [request EXCEPT ![i] = None]
        /\ net' = [net EXCEPT ![i].sends = @ + 1, ![i].send_err = Some(e)]
        /\ UNCHANGED <<url_config, url, tasks, cmd, config, request_id, client, response, emitted, bus>>

\* Lines 120, 130-136: request.send().await returned a response; its status
\* and its text headers are kept.
http_request_send_ok(i) ==
    /\ i \in tasks /\ pc[i] = "send" /\ cmd[i] = "request"
    /\ \E status \in InStatuses, headers \in InResponseHeaders :
        /\ response' = [response EXCEPT
               ![i] = Some([status |-> status, headers |-> collect_headers(headers, {})])]
        /\ pc' = [pc EXCEPT ![i] = "body"]
        /\ request' = [request EXCEPT ![i] = None]
        /\ net' = [net EXCEPT ![i].sends = @ + 1, ![i].status = Some(status),
                                ![i].headers = Some(headers)]
        /\ UNCHANGED <<url_config, url, tasks, cmd, config, request_id, client, result, emitted, bus>>

\* The body step that reports a non-2xx status in the error field of the
\* HttpResponse.
http_request_body_error_field(i) ==
    /\ i \in tasks /\ pc[i] = "body"
    /\ \E read \in InBodyReads :
        /\ LET text == text_of(read)
               status == unwrap(response[i]).status
           IN  result' = [result EXCEPT
                   ![i] = IF ~text.ok
                          THEN Some(Err(MSG_BODY \o text.val))
                          ELSE Some(Ok([status |-> status,
                                        headers |-> unwrap(response[i]).headers,
                                        body |-> text.val,
                                        error |-> IF is_success(status) THEN None
                                                  ELSE Some(MSG_STATUS \o to_string(status))]))]
        /\ pc' = [pc EXCEPT ![i] = "done"]
        /\ net' = [net EXCEPT ![i].body = Some(read)]
        /\ UNCHANGED <<url_config, url, tasks, cmd, config, request_id, client, request, response, emitted, bus>>
\* Lines 138-145: response.text().await, then the HttpResponse.
http_request_body(i) ==
    /\ i \in tasks /\ pc[i] = "body"
    /\ \E read \in InBodyReads :
        /\ LET text == text_of(read)
           IN  result' = [result EXCEPT
                   ![i] = IF ~text.ok
                          THEN Some(Err(MSG_BODY \o text.val))
                          ELSE Some(Ok([status |-> unwrap(response[i]).status,
                                        headers |-> unwrap(response[i]).headers,
                                        body |-> text.val,
                                        error |-> None]))]
        /\ pc' = [pc EXCEPT ![i] = "done"]
        /\ net' = [net EXCEPT ![i].body = Some(read)]
        /\ UNCHANGED <<url_config, url, tasks, cmd, config, request_id, client, request, response, emitted, bus>>

(***************************************************************************)
(* The specification: the frontend invokes a command in each slot of       *)
(* tasks with any config, and the network answers in any way.              *)
(***************************************************************************)
Next ==
    \E i \in Slots :
        \/ http_request_start(i)
        \/ http_request_send_err(i)
        \/ http_request_send_ok(i)
        \/ http_request_body(i)
        \/ http_request_stream_start(i)
        \/ http_request_stream_send_err(i)
        \/ http_request_stream_send_ok(i)
        \/ http_request_stream_error_body(i)
        \/ http_request_stream_chunk(i)
        \/ http_request_stream_chunk_err(i)
        \/ http_request_stream_end(i)

Spec == Init /\ [][Next]_vars

(***************************************************************************)
(* Two concurrent invocations: each slot runs a command of its own, and    *)
(* the runtime interleaves their steps in any order.                       *)
(***************************************************************************)
InitPair == InitTasks(Slots) /\ url_config = None /\ url = None

SpecPair == InitPair /\ [][Next]_vars

(***************************************************************************)
(* The invocation under a runtime that keeps polling a task that can step  *)
(* and a network that eventually answers every send and every read (with a *)
(* response, a chunk, the end of the body, a failure or the timeout).      *)
(***************************************************************************)
Step(i) ==
    \/ http_request_start(i)
    \/ http_request_send_err(i)
    \/ http_request_send_ok(i)
    \/ http_request_body(i)
    \/ http_request_stream_start(i)
    \/ http_request_stream_send_err(i)
    \/ http_request_stream_send_ok(i)
    \/ http_request_stream_error_body(i)
    \/ http_request_stream_chunk(i)
    \/ http_request_stream_chunk_err(i)
    \/ http_request_stream_end(i)

SpecFair == Init /\ [][Next]_vars /\ \A i \in Slots : WF_vars(Step(i))

(***************************************************************************)
(* build_proxy_url on its own: applied to every ProxyConfig build_client   *)
(* passes to it (an enabled one: type not "none", host not empty,          *)
(* port > 0) whose strings are drawn from an alphabet with the URL         *)
(* delimiters.                                                             *)
(***************************************************************************)
MaxLen == 2

UrlChars == {"a", ":", "@"}

Strings(n) == UNION {[1..k -> UrlChars] : k \in 0..n}

UrlProxyConfigs ==
    [proxy_type : {HTTP, SOCKS5H, <<"a">>, <<":", "@">>},
     host : Strings(MaxLen) \ {<<>>},
     port : {1, 8080},
     username : {None} \cup {Some(x) : x \in Strings(MaxLen)},
     password : {None} \cup {Some(x) : x \in Strings(MaxLen)}]

InitUrl ==
    /\ InitTasks({})
    /\ url_config \in {Some(p) : p \in UrlProxyConfigs}
    /\ url = None

\* Line 75: let proxy_url = build_proxy_url(proxy)
apply_build_proxy_url ==
    /\ is_none(url)
    /\ proxy_enabled(unwrap(url_config))
    /\ url' = Some(build_proxy_url(unwrap(url_config)))
    /\ UNCHANGED <<task_vars, url_config>>

NextUrl == apply_build_proxy_url

SpecUrl == InitUrl /\ [][NextUrl]_vars

(***************************************************************************)
(* What the claims talk about.                                             *)
(***************************************************************************)
\* t occurs in s as a contiguous substring.
Contains(s, t) == \E k \in 0..(Len(s) - Len(t)) : SubSeq(s, k + 1, k + Len(t)) = t

StartsWith(s, t) == Len(s) >= Len(t) /\ SubSeq(s, 1, Len(t)) = t

\* The tasks that run http_request_stream, and those that have returned.
StreamTasks == {i \in tasks : cmd[i] = "stream"}
Returned(i) == pc[i] = "done"
\* The task performed its network send (it got past the configuration).
Sent(i) == net[i].sends > 0
\* The positions of the task's done=true events.
TerminalAt(i) == {k \in 1..Len(emitted[i]) : emitted[i][k].done}
\* The request_id the frontend expects on the events of the task.
ExpectedId(i) ==
    IF unwrap(config[i]).request_id = None THEN DEFAULT_ID
    ELSE unwrap(unwrap(config[i]).request_id)

(***************************************************************************)
(* C1 as stated: every invocation of http_request_stream, whatever the     *)
(* config, has emitted exactly one done=true event when it returns.        *)
(* Refuted by an invocation that fails at build_client or at the method    *)
(* dispatch: it returns Err and has emitted nothing.                       *)
(***************************************************************************)
C1_EveryInvocationOneTerminal ==
    \A i \in StreamTasks : Returned(i) => Cardinality(TerminalAt(i)) = 1

(***************************************************************************)
(* C1 amended: an invocation of http_request_stream that performed its     *)
(* send has emitted exactly one done=true event when it returns, with an   *)
(* empty chunk and either error=None or an error; an invocation that       *)
(* failed before the send returns Err and has emitted no event; and no     *)
(* invocation ever emits a second done=true event.                         *)
(***************************************************************************)
C1_OneTerminalOnceSent ==
    \A i \in StreamTasks :
        /\ Cardinality(TerminalAt(i)) <= 1
        /\ Returned(i) /\ Sent(i) =>
              /\ TerminalAt(i) = {Len(emitted[i])}
              /\ \A k \in TerminalAt(i) :
                    /\ emitted[i][k].chunk = <<>>
                    /\ is_none(emitted[i][k].error) \/ is_some(emitted[i][k].error)
        /\ Returned(i) /\ ~Sent(i) =>
              /\ emitted[i] = <<>>
              /\ ~unwrap(result[i]).ok

\* A stream that sent, received two text chunks and returned.
C1_Witness ==
    \E i \in StreamTasks : Returned(i) /\ Sent(i) /\ Len(emitted[i]) = 3

(***************************************************************************)
(* C2: a stream with a 2xx status whose chunks c1..cn are all valid text   *)
(* and that ends without a read error has emitted exactly the n events     *)
(* (c1, done=false, error=None) .. (cn, done=false, error=None) in arrival *)
(* order, then one event (empty chunk, done=true, error=None) which is the *)
(* last, and has returned Ok; while it is still streaming, the events are  *)
(* those of the chunks received so far.                                    *)
(***************************************************************************)
C2_ChunkEvent(i, bytes) ==
    [request_id |-> unwrap(request_id[i]), chunk |-> utf8_decode(bytes),
     done |-> FALSE, error |-> None]

C2_AllText(i) == \A k \in 1..Len(net[i].chunks) : utf8_valid(net[i].chunks[k])

C2_ChunksThenCompletion ==
    \A i \in StreamTasks :
        is_some(response[i]) /\ is_success(unwrap(response[i]).status) /\ C2_AllText(i)
        /\ is_none(net[i].chunk_err)
        => LET n == Len(net[i].chunks)
               chunk_events == [k \in 1..n |-> C2_ChunkEvent(i, net[i].chunks[k])]
           IN  IF net[i].eof
               THEN /\ Len(emitted[i]) = n + 1
                    /\ SubSeq(emitted[i], 1, n) = chunk_events
                    /\ emitted[i][n + 1] =
                           [request_id |-> unwrap(request_id[i]), chunk |-> <<>>,
                            done |-> TRUE, error |-> None]
                    /\ result[i] = Some(Ok(<<>>))
               ELSE /\ emitted[i] = chunk_events
                    /\ is_none(result[i])

\* Two different text chunks arrived, the stream ended and the call returned.
C2_Witness ==
    \E i \in StreamTasks :
        /\ Returned(i) /\ net[i].eof /\ C2_AllText(i)
        /\ Len(net[i].chunks) = 2 /\ net[i].chunks[1] # net[i].chunks[2]

(***************************************************************************)
(* C3 as stated: a stream whose response status is outside 2xx emits       *)
(* exactly one event, with done=true, an empty chunk and an error text     *)
(* that contains the status and the response body, never a done=false      *)
(* event, and returns Err.  Refuted when reading the body fails: the       *)
(* unwrap_or_default puts an empty body in the text.                       *)
(***************************************************************************)
C3_NonSuccess(i) == is_some(response[i]) /\ ~is_success(unwrap(response[i]).status)

C3_OneErrorEvent(i) ==
    /\ Len(emitted[i]) = 1
    /\ emitted[i][1].done
    /\ emitted[i][1].chunk = <<>>
    /\ is_some(emitted[i][1].error)
    /\ Contains(unwrap(emitted[i][1].error), to_string(unwrap(response[i]).status))
    /\ ~unwrap(result[i]).ok

C3_ErrorEmbedsStatusAndBody ==
    \A i \in StreamTasks :
        C3_NonSuccess(i) =>
            IF Returned(i)
            THEN /\ C3_OneErrorEvent(i)
                 /\ Contains(unwrap(emitted[i][1].error), unwrap(net[i].body).body)
            ELSE emitted[i] = <<>>

(***************************************************************************)
(* C3 amended: a stream whose response status is outside 2xx emits exactly *)
(* one event, with done=true, an empty chunk and an error text that        *)
(* contains the status, followed by the response body when the body was    *)
(* read and by nothing when reading it failed; it never emits a done=false *)
(* event, and returns Err.                                                 *)
(***************************************************************************)
C3_ErrorEmbedsStatusAndReadBody ==
    \A i \in StreamTasks :
        C3_NonSuccess(i) =>
            IF Returned(i)
            THEN /\ C3_OneErrorEvent(i)
                 /\ LET text == unwrap(emitted[i][1].error)
                        read == unwrap(net[i].body)
                        head == MSG_STATUS \o to_string(unwrap(response[i]).status)
                                    \o MSG_SEP
                    IN  /\ StartsWith(text, head)
                        /\ SubSeq(text, Len(head) + 1, Len(text)) =
                               IF is_none(read.err) THEN read.body ELSE <<>>
            ELSE emitted[i] = <<>>

\* Status 500 with a body that was read: the text is HTTP 500: hi.
C3_Witness ==
    \E i \in StreamTasks :
        /\ Returned(i) /\ C3_NonSuccess(i) /\ unwrap(response[i]).status = 500
        /\ is_none(unwrap(net[i].body).err) /\ unwrap(net[i].body).body # <<>>

(***************************************************************************)
(* C4: for an invocation of http_request_stream that performed its send,   *)
(* the event and the call result agree: once it has returned, its last     *)
(* event is its only done=true event, the result is Err exactly when that  *)
(* event has an error and Ok exactly when it has error=None; before it     *)
(* returns there is no done=true event and no result.                      *)
(***************************************************************************)
C4_EventAgreesWithResult ==
    \A i \in StreamTasks :
        Sent(i) =>
            IF Returned(i)
            THEN /\ TerminalAt(i) = {Len(emitted[i])}
                 /\ LET e == emitted[i][Len(emitted[i])]
                    IN  /\ ~unwrap(result[i]).ok <=> is_some(e.error)
                        /\ unwrap(result[i]).ok <=> is_none(e.error)
            ELSE /\ TerminalAt(i) = {}
                 /\ is_none(result[i])

\* A read error after one text chunk: an error event, then Err.
C4_Witness ==
    \E i \in StreamTasks :
        /\ Returned(i) /\ is_some(net[i].chunk_err) /\ Len(emitted[i]) = 2
        /\ ~unwrap(result[i]).ok

(***************************************************************************)
(* C5: when the send fails, http_request_stream emits exactly one event    *)
(* (error set, done=true, empty chunk) and returns Err with the string     *)
(* http_request returns for the same failure: both classify the failure as *)
(* a connection failure, else a timeout, else a generic failure, whatever  *)
(* the config.                                                             *)
(***************************************************************************)
C5_SendFailureSameError ==
    \A i \in tasks :
        is_some(net[i].send_err) =>
            LET msg == send_error_msg(unwrap(net[i].send_err))
            IN  /\ Returned(i)
                /\ result[i] = Some(Err(msg))
                /\ cmd[i] = "request" => emitted[i] = <<>>
                /\ cmd[i] = "stream" =>
                       emitted[i] = <<[request_id |-> ExpectedId(i), chunk |-> <<>>,
                                       done |-> TRUE, error |-> Some(msg)]>>

\* The send of a stream failed with a connect timeout, which is both a
\* connect error and a timeout.
C5_Witness ==
    \E i \in StreamTasks :
        /\ is_some(net[i].send_err)
        /\ unwrap(net[i].send_err).connect /\ unwrap(net[i].send_err).timeout
        /\ Len(emitted[i]) = 1

(***************************************************************************)
(* C6: every event an invocation of http_request_stream emits, chunk or    *)
(* terminal, on every path, carries the request_id of its config, or       *)
(* "default" when the config has none.                                     *)
(***************************************************************************)
C6_SameRequestId ==
    \A i \in StreamTasks :
        \A k \in 1..Len(emitted[i]) : emitted[i][k].request_id = ExpectedId(i)

\* No request_id was supplied; a chunk event and the terminal event carry
\* "default".
C6_Witness ==
    \E i \in StreamTasks :
        /\ Returned(i) /\ Len(emitted[i]) = 2
        /\ unwrap(config[i]).request_id = None
        /\ emitted[i][1].request_id = DEFAULT_ID

(***************************************************************************)
(* C7: a command invoked with a method that is not GET, POST, PUT, DELETE  *)
(* or PATCH in any letter case has returned Err without a network send,    *)
(* in http_request and in http_request_stream alike.                       *)
(***************************************************************************)
C7_Lower(c) ==
    IF \E j \in 1..Len(UPPER) : UPPER[j] = c
    THEN LOWER[CHOOSE j \in 1..Len(UPPER) : UPPER[j] = c]
    ELSE c

C7_EqIgnoreCase(a, b) ==
    Len(a) = Len(b) /\ \A k \in 1..Len(a) : C7_Lower(a[k]) = C7_Lower(b[k])

C7_Unsupported(method) ==
    \A m \in {GET, POST, PUT, DELETE, PATCH} : ~C7_EqIgnoreCase(method, m)

C7_UnsupportedMethodNoSend ==
    \A i \in tasks :
        cmd[i] # "none" /\ C7_Unsupported(unwrap(config[i]).method) =>
            /\ Returned(i)
            /\ ~unwrap(result[i]).ok
            /\ net[i].sends = 0
            /\ is_none(request[i])

\* http_request_stream invoked with HEAD and no proxy returned the method
\* error.
C7_Witness ==
    \E i \in StreamTasks :
        /\ unwrap(config[i]).method = <<"H", "E", "A", "D">>
        /\ is_none(unwrap(config[i]).proxy)
        /\ result[i] = Some(Err(MSG_METHOD \o <<"H", "E", "A", "D">>))

(***************************************************************************)
(* C8: with a proxy that is enabled (type not "none", host not empty,      *)
(* port > 0): if its type is not http, https, socks5 or socks5h,           *)
(* build_client returns the error "Unsupported proxy type: <type>" and the *)
(* command returns it without a network send; if its type is one of the    *)
(* four, the client build_client returns has the URL of build_proxy_url as *)
(* its proxy for all schemes.                                              *)
(***************************************************************************)
C8_Enabled(p) == p.proxy_type # NONE_TYPE /\ Len(p.host) > 0 /\ p.port > 0

C8_UnsupportedProxyType ==
    \A i \in tasks :
        cmd[i] # "none" /\ is_some(unwrap(config[i]).proxy)
        /\ C8_Enabled(unwrap(unwrap(config[i]).proxy))
        => LET p == unwrap(unwrap(config[i]).proxy)
               built == unwrap(client[i])
           IN  IF p.proxy_type \notin {HTTP, HTTPS, SOCKS5, SOCKS5H}
               THEN /\ built = Err(MSG_PROXY_TYPE \o p.proxy_type)
                    /\ Returned(i)
                    /\ result[i] = Some(built)
                    /\ net[i].sends = 0
               ELSE built.ok => built.val.proxy = Some([all |-> build_proxy_url(p)])

\* http_request invoked with an enabled proxy of type ftp.
C8_Witness ==
    \E i \in tasks :
        /\ cmd[i] = "request"
        /\ unwrap(config[i]).proxy = Some(BadProxy)
        /\ result[i] = Some(Err(MSG_PROXY_TYPE \o <<"f", "t", "p">>))

(***************************************************************************)
(* C9 as stated: with a proxy whose type is "none", or whose host is       *)
(* empty, or whose port is 0, build_client succeeds and the client has no  *)
(* proxy.  Refuted when ClientBuilder::build fails: build_client returns   *)
(* "Failed to build HTTP client: ...".                                     *)
(***************************************************************************)
C9_Disabled(p) == p.proxy_type = NONE_TYPE \/ p.host = <<>> \/ p.port = 0

C9_DisabledProxySucceeds ==
    \A i \in tasks :
        cmd[i] # "none" /\ is_some(unwrap(config[i]).proxy)
        /\ C9_Disabled(unwrap(unwrap(config[i]).proxy))
        => /\ unwrap(client[i]).ok
           /\ unwrap(client[i]).val.proxy = None

(***************************************************************************)
(* C9 amended: with a proxy whose type is "none", or whose host is empty,  *)
(* or whose port is 0, whatever its other fields, build_client applies no  *)
(* proxy and returns no proxy error: it returns a client without a proxy,  *)
(* unless the construction of the client itself fails.                     *)
(***************************************************************************)
C9_DisabledProxyNotApplied ==
    \A i \in tasks :
        cmd[i] # "none" /\ is_some(unwrap(config[i]).proxy)
        /\ C9_Disabled(unwrap(unwrap(config[i]).proxy))
        => IF unwrap(client[i]).ok
           THEN unwrap(client[i]).val.proxy = None
           ELSE StartsWith(unwrap(client[i]).val, MSG_BUILD)

\* A proxy of the unsupported type ftp with credentials and port 0: the
\* client was built without a proxy and the request is ready to be sent.
C9_Witness ==
    \E i \in tasks :
        /\ pc[i] = "send"
        /\ is_some(unwrap(config[i]).proxy)
        /\ LET p == unwrap(unwrap(config[i]).proxy)
           IN  /\ p.proxy_type = <<"f", "t", "p">> /\ p.port = 0 /\ p.host # <<>>
               /\ is_some(p.username) /\ is_some(p.password)
        /\ unwrap(client[i]).ok
        /\ unwrap(client[i]).val.proxy = None

(***************************************************************************)
(* C10 as stated: for a ProxyConfig with username and password both set,   *)
(* the URL of build_proxy_url contains user:pass@ exactly once, and that   *)
(* occurrence is immediately after the "://" of the scheme.  Refuted by a  *)
(* host (or a type) that itself contains user:pass@.                       *)
(***************************************************************************)
\* The positions at which t occurs in s.
Occurrences(s, t) ==
    {k \in 1..(Len(s) - Len(t) + 1) : SubSeq(s, k, k + Len(t) - 1) = t}

C10_BothSet == is_some(url) /\ is_some(unwrap(url_config).username)
                   /\ is_some(unwrap(url_config).password)

C10_Auth ==
    unwrap(unwrap(url_config).username) \o <<":">>
        \o unwrap(unwrap(url_config).password) \o <<"@">>

\* The position right after the "://" that follows the scheme.
C10_AfterScheme == Len(unwrap(url_config).proxy_type) + 3 + 1

C10_AuthExactlyOnce ==
    C10_BothSet => Occurrences(unwrap(url), C10_Auth) = {C10_AfterScheme}

(***************************************************************************)
(* C10 amended: for a ProxyConfig with username and password both set,     *)
(* the URL of build_proxy_url has user:pass@ immediately after the "://"   *)
(* of the scheme, and that is its only occurrence whenever neither the     *)
(* type nor the host contains "@" (whatever characters the credentials     *)
(* contain).                                                               *)
(***************************************************************************)
C10_AuthAfterScheme ==
    C10_BothSet =>
        /\ C10_AfterScheme \in Occurrences(unwrap(url), C10_Auth)
        /\ ~Contains(unwrap(url_config).proxy_type, <<"@">>)
           /\ ~Contains(unwrap(url_config).host, <<"@">>)
           => Occurrences(unwrap(url), C10_Auth) = {C10_AfterScheme}

\* Credentials made of delimiters: user ":@", password "@:".
C10_Witness ==
    /\ C10_BothSet
    /\ unwrap(url_config).username = Some(<<":", "@">>)
    /\ unwrap(url_config).password = Some(<<"@", ":">>)
    /\ unwrap(url_config).proxy_type = SOCKS5H
    /\ unwrap(url_config).host = <<"a">>

(***************************************************************************)
(* C11: the URL of build_proxy_url is scheme://[auth]host:port, where auth *)
(* is user:pass@ when username and password are both present, user@ when   *)
(* only the username is present, and empty in every other case: a password *)
(* given without a username is not embedded.                               *)
(***************************************************************************)
\* The URL with the given credential part.
C11_Url(auth) ==
    unwrap(url_config).proxy_type \o <<":", "/", "/">> \o auth
        \o unwrap(url_config).host \o <<":">>
        \o to_string(unwrap(url_config).port)

C11_UrlShape ==
    is_some(url) =>
        LET username == unwrap(url_config).username
            password == unwrap(url_config).password
        IN  /\ username # None /\ password # None
               => unwrap(url) = C11_Url(unwrap(username) \o <<":">>
                                            \o unwrap(password) \o <<"@">>)
            /\ username # None /\ password = None
               => unwrap(url) = C11_Url(unwrap(username) \o <<"@">>)
            /\ username = None
               => unwrap(url) = C11_Url(<<>>)

\* A password without a username: the URL is http://a:8080.
C11_Witness ==
    /\ is_some(url)
    /\ unwrap(url_config).username = None
    /\ unwrap(url_config).password = Some(<<"a", "a">>)
    /\ unwrap(url_config).proxy_type = HTTP
    /\ unwrap(url_config).host = <<"a">>
    /\ unwrap(url_config).port = 8080
    /\ unwrap(url) = <<"h", "t", "t", "p", ":", "/", "/", "a", ":", "8", "0", "8", "0">>

(***************************************************************************)
(* C12: emission is fire-and-forget.  Two invocations of                   *)
(* http_request_stream with the same config for which the network has done *)
(* the same have made the same sequence of emission attempts and have the  *)
(* same result, whichever of their emissions succeeded and whichever       *)
(* failed; and a result of Err always has a cause in the config or in the  *)
(* network (nothing sent, a failed send, a non-2xx status, a failed chunk  *)
(* read), never in an emission.                                            *)
(***************************************************************************)
\* The outcomes of the task's emissions, in order.
C12_Delivered(i) ==
    LET own == SelectSeq(bus, LAMBDA ev : ev.task = i)
    IN  [k \in 1..Len(own) |-> own[k].delivered]

C12_FireAndForget ==
    /\ \A i \in StreamTasks, j \in StreamTasks :
           config[i] = config[j] /\ net[i] = net[j]
           => /\ emitted[i] = emitted[j]
              /\ result[i] = result[j]
              /\ pc[i] = pc[j]
    /\ \A i \in StreamTasks :
           is_some(result[i]) /\ ~unwrap(result[i]).ok
           => \/ net[i].sends = 0
              \/ is_some(net[i].send_err)
              \/ is_some(net[i].status) /\ ~is_success(unwrap(net[i].status))
              \/ is_some(net[i].chunk_err)

\* Two invocations with the same config that received the same two chunks
\* and the end of the body: every emission of the first failed, every
\* emission of the second succeeded, and both returned Ok.
C12_Witness ==
    /\ StreamTasks = {1, 2}
    /\ config[1] = config[2]
    /\ net[1] = net[2]
    /\ net[1].chunks = <<<<97>>, <<97>>>> /\ net[1].eof
    /\ C12_Delivered(1) = <<FALSE, FALSE, FALSE>>
    /\ C12_Delivered(2) = <<TRUE, TRUE, TRUE>>
    /\ unwrap(result[1]).ok /\ unwrap(result[2]).ok

(***************************************************************************)
(* What one invocation of http_request_stream emits and returns, as a      *)
(* function of its own config and of what the network did for it.          *)
(***************************************************************************)
\* The chunks received that are valid text, in arrival order.
ValidChunks(i) == SelectSeq(net[i].chunks, LAMBDA bytes : from_utf8(bytes).ok)

\* One done=false event for each of them.
ChunkEvents(i) ==
    [k \in 1..Len(ValidChunks(i)) |->
        StreamChunk(ExpectedId(i), from_utf8(ValidChunks(i)[k]).val, FALSE, None)]

\* The error the network caused, if any: the text of the terminal event.
NetError(i) ==
    IF is_some(net[i].send_err)
    THEN Some(send_error_msg(unwrap(net[i].send_err)))
    ELSE IF is_some(net[i].body)
    THEN Some(MSG_STATUS \o to_string(unwrap(net[i].status)) \o MSG_SEP
                  \o (IF is_some(unwrap(net[i].body).err) THEN <<>>
                      ELSE unwrap(net[i].body).body))
    ELSE IF is_some(net[i].chunk_err)
    THEN Some(MSG_STREAM \o unwrap(net[i].chunk_err))
    ELSE None

\* The network has ended the invocation: by a failure or by the end of the body.
NetEnded(i) == is_some(NetError(i)) \/ net[i].eof

OwnEvents(i) ==
    ChunkEvents(i)
        \o (IF NetEnded(i) THEN <<StreamChunk(ExpectedId(i), <<>>, TRUE, NetError(i))>>
            ELSE <<>>)

\* The events of the bus that carry the request_id, in bus order.
Sink(id) ==
    LET evs == SelectSeq(bus, LAMBDA ev : ev.payload.request_id = id)
    IN  [k \in 1..Len(evs) |-> evs[k].payload]

(***************************************************************************)
(* C13: of concurrent invocations of http_request_stream with pairwise     *)
(* distinct request_ids, under every interleaving, the events of the bus   *)
(* that carry the request_id of one invocation are exactly the events that *)
(* invocation emitted, in the order it emitted them: its chunk events in   *)
(* arrival order and then, once the network has ended it, its single       *)
(* terminal event; these events and its result are determined by its own   *)
(* config and its own network history, whatever the other invocation does. *)
(***************************************************************************)
C13_Demultiplexed ==
    \A i \in StreamTasks :
        (\A j \in StreamTasks \ {i} : ExpectedId(j) # ExpectedId(i))
        => /\ Sink(ExpectedId(i)) = emitted[i]
           /\ emitted[i] = OwnEvents(i)
           /\ Sent(i) =>
                  result[i] = IF is_some(NetError(i)) THEN Some(Err(unwrap(NetError(i))))
                              ELSE IF net[i].eof THEN Some(Ok(<<>>))
                              ELSE None
           /\ ~Sent(i) /\ is_some(result[i]) => ~unwrap(result[i]).ok

\* Two streams with request_ids "default" and "r1" whose events alternate
\* on the bus; the first received "a" and then a read error, the second
\* e-acute, "a" and the end of the body.
C13_Witness ==
    /\ StreamTasks = {1, 2}
    /\ ExpectedId(1) = DEFAULT_ID /\ ExpectedId(2) = <<"r", "1">>
    /\ Returned(1) /\ Returned(2)
    /\ [k \in 1..Len(bus) |-> bus[k].task] = <<2, 1, 2, 1, 2>>
    /\ net[1].chunks = <<<<97>>>> /\ is_some(net[1].chunk_err)
    /\ net[2].chunks = <<<<195, 169>>, <<97>>>> /\ net[2].eof
    /\ Sink(<<"r", "1">>) = <<StreamChunk(<<"r", "1">>, <<"e-acute">>, FALSE, None),
                              StreamChunk(<<"r", "1">>, <<"a">>, FALSE, None),
                              StreamChunk(<<"r", "1">>, <<>>, TRUE, None)>>

(***************************************************************************)
(* C14 as stated: when http_request has received a response and read its   *)
(* body, it returns a Response with the numeric status, headers that are   *)
(* exactly the response headers whose value is valid text, the whole body  *)
(* and no error; when reading the body failed it returns the body-read     *)
(* Err.  Refuted by a response with two text headers of one name: the      *)
(* mapping keeps only the later one.                                       *)
(***************************************************************************)
RequestTasks == {i \in tasks : cmd[i] = "request"}

\* Every response header whose value is text, as a name and its text.
C14_TextHeaders(list) ==
    {<<list[n].key, to_str(list[n].value).val>> :
        n \in {n \in 1..Len(list) : to_str(list[n].value).ok}}

\* The task has read the body (or failed to): what it must have returned,
\* given the headers of the Response.
C14_Returns(i, headers) ==
    LET read == unwrap(net[i].body)
    IN  /\ Returned(i)
        /\ result[i] =
               IF is_some(read.err)
               THEN Some(Err(MSG_BODY \o unwrap(read.err)))
               ELSE Some(Ok([status |-> unwrap(net[i].status),
                             headers |-> headers,
                             body |-> read.body,
                             error |-> None]))

C14_EveryTextHeader ==
    \A i \in RequestTasks :
        is_some(net[i].body)
        => C14_Returns(i, C14_TextHeaders(unwrap(net[i].headers)))

(***************************************************************************)
(* C14 amended: the headers of the Response map every name that has a      *)
(* text value among the response headers to the last text value of that    *)
(* name (a value that is not text is dropped without error, and of several *)
(* text values of one name only the last is kept); the rest as stated.     *)
(***************************************************************************)
C14_LastTextHeaders(list) ==
    LET text == {n \in 1..Len(list) : to_str(list[n].value).ok}
        last(key) == CHOOSE n \in text :
                         /\ list[n].key = key
                         /\ \A k \in text : list[k].key = key => k <= n
    IN  {<<list[n].key, to_str(list[last(list[n].key)].value).val>> : n \in text}

C14_ResponseOfRead ==
    \A i \in RequestTasks :
        is_some(net[i].body)
        => C14_Returns(i, C14_LastTextHeaders(unwrap(net[i].headers)))

\* A response with status 500, the headers x: 1 and y: (not text) and the
\* body "hi": the Response has the header x alone.
C14_Witness ==
    /\ RequestTasks = {1}
    /\ net[1].status = Some(500)
    /\ net[1].headers = Some(<<[key |-> <<"x">>, value |-> <<49>>],
                               [key |-> <<"y">>, value |-> <<195, 169>>]>>)
    /\ net[1].body = Some([body |-> <<"h", "i">>, err |-> None])
    /\ result[1] = Some(Ok([status |-> 500,
                            headers |-> {<<<<"x">>, <<"1">>>>},
                            body |-> <<"h", "i">>,
                            error |-> None]))

(***************************************************************************)
(* C15: every invocation of either command eventually returns, provided    *)
(* the runtime keeps polling it and the network eventually answers every   *)
(* send and every read with a response, a chunk, the end of the body, a    *)
(* failure or the timeout.  The timeout build_client sets covers the whole *)
(* request, so a body has finitely many chunks (ChunkBound) before its end *)
(* or the failure of a read.                                               *)
(***************************************************************************)
C15_EventuallyReturns ==
    \A i \in Slots : (pc[i] # "idle") ~> (Returned(i) /\ is_some(result[i]))

\* A stream that received as many chunks as a body has and then the
\* timeout as a failed read, and returned.
C15_Witness ==
    /\ StreamTasks = {1}
    /\ Len(net[1].chunks) = MaxChunks
    /\ is_some(net[1].chunk_err)
    /\ Returned(1) /\ is_some(result[1])

(***************************************************************************)
(* C16: no retries.  Every invocation performs at most one network send;   *)
(* once a send or a read of it has failed it has returned Err, with (for   *)
(* http_request_stream) exactly one event that carries an error, and from  *)
(* then on it performs no send and no read and emits nothing.              *)
(***************************************************************************)
\* A network operation of the task has failed: the send, the read of the
\* body, or the read of a chunk.
C16_Failed(i) ==
    \/ is_some(net[i].send_err)
    \/ is_some(net[i].body) /\ is_some(unwrap(net[i].body).err)
    \/ is_some(net[i].chunk_err)

C16_ReportedOnce(i) ==
    /\ Returned(i)
    /\ is_some(result[i]) /\ ~unwrap(result[i]).ok
    /\ Cardinality({k \in 1..Len(emitted[i]) : is_some(emitted[i][k].error)})
           = IF cmd[i] = "stream" THEN 1 ELSE 0

C17_Streaming == {i \in StreamTasks : is_some(net[i].status)
                                      /\ is_success(unwrap(net[i].status))}

C17_DataEvents(i) == SelectSeq(emitted[i], LAMBDA ev : ~ev.done)

C17_InvalidChunkSkipped ==
    \A i \in C17_Streaming :
        /\ Len(C17_DataEvents(i))
               = Cardinality({k \in 1..Len(net[i].chunks) : utf8_valid(net[i].chunks[k])})
        /\ C17_DataEvents(i) = ChunkEvents(i)
        /\ ~net[i].eof /\ is_none(net[i].chunk_err)
           => pc[i] = "stream" /\ is_none(result[i]) /\ TerminalAt(i) = {}
        /\ net[i].eof
           => /\ is_none(net[i].chunk_err)
              /\ Returned(i) /\ result[i] = Some(Ok(<<>>))
              /\ emitted[i] = ChunkEvents(i)
                                  \o <<StreamChunk(ExpectedId(i), <<>>, TRUE, None)>>

\* The first half of e-acute alone, then "a", then the end of the body: one
\* chunk event ("a") and the completion, and Ok.
C17_Witness ==
    /\ C17_Streaming = {1}
    /\ net[1].chunks = <<<<195>>, <<97>>>>
    /\ net[1].eof
    /\ emitted[1] = <<StreamChunk(ExpectedId(1), <<"a">>, FALSE, None),
                      StreamChunk(ExpectedId(1), <<>>, TRUE, None)>>
    /\ result[1] = Some(Ok(<<>>))

(***************************************************************************)
(* C18: when reading a chunk fails, the events are those of the chunks     *)
(* already received and then one terminal event (done=true, the error set, *)
(* an empty chunk), the call has returned Err, and no further chunk is     *)
(* read; and in every invocation a done=true event is the last event: no   *)
(* event is emitted after it.                                              *)
(***************************************************************************)
C18_AfterReadFailure(i) ==
    is_some(net[i].chunk_err)
    => /\ emitted[i] = ChunkEvents(i)
                           \o <<StreamChunk(ExpectedId(i), <<>>, TRUE,
                                    Some(MSG_STREAM \o unwrap(net[i].chunk_err)))>>
       /\ Returned(i)
       /\ result[i] = Some(Err(MSG_STREAM \o unwrap(net[i].chunk_err)))
       /\ ~net[i].eof

C18_TerminalIsLast(i) == \A k \in TerminalAt(i) : k = Len(emitted[i])

C18_ReadFailureEndsStream ==
    [][\A i \in tasks :
          /\ C18_AfterReadFailure(i)'
          /\ C18_TerminalIsLast(i)'
          /\ is_some(net[i].chunk_err) => net'[i] = net[i]
          /\ TerminalAt(i) # {} => emitted'[i] = emitted[i]]_vars

\* A text chunk, then a failed read: the chunk event, then the error event.
C18_Witness ==
    /\ StreamTasks = {1}
    /\ net[1].chunks = <<<<195, 169>>>>
    /\ net[1].chunk_err = Some(<<"r", "s", "t">>)
    /\ Len(emitted[1]) = 2
    /\ ~emitted[1][1].done
    /\ emitted[1][2].done /\ is_some(emitted[1][2].error) /\ emitted[1][2].chunk = <<>>
    /\ Returned(1) /\ ~unwrap(result[1]).ok

(***************************************************************************)
(* C19 as stated: for the same config and the same non-2xx response,       *)
(* http_request returns Ok(HttpResponse) with that status, the body and    *)
(* error = None, and http_request_stream returns Err; every HttpResponse   *)
(* returned has error = None.  Refuted by a non-2xx response whose body    *)
(* cannot be read: http_request returns Err as well.                       *)
(***************************************************************************)
\* The task has returned after the network answered with a non-2xx status.
C19_NonSuccess(i) ==
    /\ Returned(i)
    /\ is_some(net[i].status) /\ ~is_success(unwrap(net[i].status))

\* A request and a stream with the same config and the same response.
C19_Pairs ==
    {p \in RequestTasks \X StreamTasks :
        /\ config[p[1]] = config[p[2]]
        /\ C19_NonSuccess(p[1]) /\ C19_NonSuccess(p[2])
        /\ net[p[1]].status = net[p[2]].status
        /\ net[p[1]].body = net[p[2]].body}

C19_OkResponse(i) ==
    /\ unwrap(result[i]).ok
    /\ unwrap(result[i]).val.status = unwrap(net[i].status)
    /\ unwrap(result[i]).val.body = unwrap(net[i].body).body
    /\ unwrap(result[i]).val.error = None

C19_ErrorFieldNone ==
    \A i \in RequestTasks :
        is_some(result[i]) /\ unwrap(result[i]).ok => unwrap(result[i]).val.error = None

C19_NonSuccessIsOk ==
    /\ \A p \in C19_Pairs : C19_OkResponse(p[1]) /\ ~unwrap(result[p[2]]).ok
    /\ C19_ErrorFieldNone

(***************************************************************************)
(* C19 amended: for the same config and the same non-2xx response,         *)
(* http_request_stream returns Err; http_request returns Ok(HttpResponse)  *)
(* with that status, the body and error = None when the body could be      *)
(* read, and the body-read Err when it could not; every HttpResponse       *)
(* returned has error = None.                                              *)
(***************************************************************************)
C19_NonSuccessDiffers ==
    /\ \A p \in C19_Pairs :
           /\ ~unwrap(result[p[2]]).ok
           /\ IF is_none(unwrap(net[p[1]].body).err)
              THEN C19_OkResponse(p[1])
              ELSE result[p[1]] = Some(Err(MSG_BODY \o unwrap(unwrap(net[p[1]].body).err)))
    /\ C19_ErrorFieldNone

\* Status 500 with body "hi" for both: http_request returned the
\* HttpResponse, http_request_stream returned Err("HTTP 500: hi").
C19_Witness ==
    /\ <<1, 2>> \in C19_Pairs
    /\ net[1].status = Some(500)
    /\ net[1].body = Some([body |-> <<"h", "i">>, err |-> None])
    /\ C19_OkResponse(1)
    /\ result[2] = Some(Err(<<"H", "T", "T", "P", " ", "5", "0", "0", ":", " ", "h", "i">>))
====
